---- MODULE Spec2Model ----
(***************************************************************************)
(* Model of the voila dashboard openbb_terminal/dashboards/voila/          *)
(* crypto.ipynb: the "Update rates" button, its handler show_rates, the    *)
(* helper get_exchange_rate, the module-level mapping exchange_rates and   *)
(* the GridBox grid.                                                       *)
(*                                                                         *)
(* Strings that the code slices (the price text) are sequences of          *)
(* one-character strings.  A close is a non-negative decimal numeral       *)
(* [whole, frac]: the integer part and the digits after the point, with no *)
(* trailing zero, which is the information str() of a float prints for     *)
(* values in the positional range of repr (1e-4 <= x < 1e16).              *)
(***************************************************************************)
EXTENDS Integers, Sequences, FiniteSets, TLC

VARIABLES
    api_bound,       \* whether the global name `api` resolves in the kernel
    grid,            \* grid.children: the cards the GridBox shows
    exchange_rates,  \* the module-level dict exchange_rates
    pc,              \* position of show_rates: "idle", "fetch" or "render"
    coin_idx,        \* index in COIN_LIST of the loop variable coin (0 when idle)
    price,           \* local price of show_rates
    price_color,     \* local price_color of show_rates
    attempts,        \* coins for which get_exchange_rate was called in this call
    fetched,         \* what openbb.crypto.load returned in this call, in order
    raised,          \* exception that left the last show_rates call, or "none"
    called,          \* show_rates has been called at least once
    baseline         \* the previous call's frames and final grid, kept for a
                     \* call in which the data source repeats those frames

vars == <<api_bound, grid, exchange_rates, pc, coin_idx, price, price_color,
          attempts, fetched, raised, called, baseline>>

----------------------------------------------------------------------------
(* Bounds and program constants *)

\* Number of symbols of the coin list the model keeps (the notebook has 48).
NumCoins == 3

\* The slice bound of str(...)[:7].
PriceWidth == 7

ALL_COINS ==
    <<"BTC", "ETH", "USDT", "BNB", "USDC", "XRP", "LUNA", "ADA",
      "SOL", "AVAX", "DOT", "BUSD", "DOGE", "UST", "SHIB", "WBTC",
      "MATIC", "CRO", "DAI", "LTC", "ATOM", "NEAR", "LINK", "BCH",
      "UNI", "TRX", "FTT", "ETC", "LEO", "ALGO", "XLM", "MANA",
      "BTCB", "HBAR", "EGLD", "ICP", "SAND", "XMR", "WAVES", "VET",
      "APE", "FIL", "FTM", "AXS", "THETA", "KLAY", "XTZ", "RUNE">>

\* COIN_LIST = "BTC,ETH,...".split(","), cut to the first NumCoins symbols.
COIN_LIST == SubSeq(ALL_COINS, 1, NumCoins)

Coins == {COIN_LIST[i] : i \in 1..Len(COIN_LIST)}

\* Python's None, as a price text and as a color.
NonePrice == <<"None">>
NoneColor == "None"

\* The except branch's price: "-------".
PLACEHOLDER == <<"-", "-", "-", "-", "-", "-", "-">>

----------------------------------------------------------------------------
(* The data source: closes and frames *)

Dec(w, f) == [whole |-> w, frac |-> f]

\* 10.0, 12.0 and 12345.6789
CloseValues == {Dec(10, <<>>), Dec(12, <<>>), Dec(12345, <<6, 7, 8, 9>>)}

\* 12345678.0, whose text is longer than 7 characters before the point.
BigClose == Dec(12345678, <<>>)

Frame(closes) == [error |-> FALSE, Close |-> closes]

\* openbb.crypto.load raised (network error, unknown symbol, ...).
LoadError == [error |-> TRUE, Close |-> <<>>]

\* What load can hand back: an exception, an empty frame, a 1-row frame, every
\* 2-row frame over CloseValues, two 2-row frames with BigClose, and a 3-row
\* frame whose first row differs from the last two.
Frames ==
    {LoadError}
    \cup {Frame(<<>>)}
    \cup {Frame(<<Dec(10, <<>>)>>)}
    \cup {Frame(<<a, b>>) : a \in CloseValues, b \in CloseValues}
    \cup {Frame(<<Dec(12345, <<6, 7, 8, 9>>), BigClose>>),
          Frame(<<BigClose, Dec(12345, <<6, 7, 8, 9>>)>>)}
    \cup {Frame(<<Dec(12345, <<6, 7, 8, 9>>), Dec(10, <<>>), Dec(12, <<>>)>>)}

----------------------------------------------------------------------------
(* get_exchange_rate *)

DIGITS == <<"0", "1", "2", "3", "4", "5", "6", "7", "8", "9">>

RECURSIVE IntStr(_)
IntStr(n) ==
    IF n < 10 THEN <<DIGITS[n + 1]>>
    ELSE Append(IntStr(n \div 10), DIGITS[(n % 10) + 1])

FracStr(f) ==
    IF f = <<>> THEN <<"0">> ELSE [i \in 1..Len(f) |-> DIGITS[f[i] + 1]]

\* str(x) of a float x: integer digits, the point, at least one fraction digit.
str(c) == IntStr(c.whole) \o <<".">> \o FracStr(c.frac)

\* s[:n]
Slice(s, n) == SubSeq(s, 1, IF Len(s) < n THEN Len(s) ELSE n)

FracDigit(f, i) == IF i <= Len(f) THEN f[i] ELSE 0

\* a > b on floats: by integer part, then by the first differing fraction digit.
Gt(a, b) ==
    \/ a.whole > b.whole
    \/ /\ a.whole = b.whole
       /\ \E i \in 1..(Len(a.frac) + Len(b.frac)) :
            /\ FracDigit(a.frac, i) > FracDigit(b.frac, i)
            /\ \A j \in 1..(i - 1) : FracDigit(a.frac, j) = FracDigit(b.frac, j)

\* current_df["Close"].iloc[-1] and .iloc[-2]
Latest(closes) == closes[Len(closes)]
Prior(closes) == closes[Len(closes) - 1]

SwappedColor(closes) ==
    IF Gt(Prior(closes), Latest(closes)) THEN "up_color"
    ELSE IF Gt(Latest(closes), Prior(closes)) THEN "down_color"
    ELSE "neutral_color"

\* price_color of get_exchange_rate
PriceColor(closes) ==
    IF Gt(Latest(closes), Prior(closes)) THEN "up_color"
    ELSE IF Gt(Prior(closes), Latest(closes)) THEN "down_color"
    ELSE "neutral_color"

ShortPrice(closes) == Slice(str(Latest(closes)), PriceWidth - 1)

\* price = str(current_df["Close"].iloc[-1])[:7]
DisplayPrice(closes) == Slice(str(Latest(closes)), PriceWidth)

\* get_exchange_rate(coin) on the frame load returns for coin.  It raises when
\* load raises and when the frame has fewer than two rows (iloc[-2] or iloc[-1]
\* is out of bounds); otherwise it returns (price, price_color).
get_exchange_rate(df) ==
    IF df.error \/ Len(df.Close) < 2
    THEN [raises |-> TRUE, price |-> NonePrice, price_color |-> NoneColor]
    ELSE [raises |-> FALSE,
          price |-> DisplayPrice(df.Close),
          price_color |-> PriceColor(df.Close)]

----------------------------------------------------------------------------
(* show_rates *)

\* widgets.price_card(ticker, price, price_color) wrapped in ipw.HTML: the
\* markup is a function of its three arguments.
price_card(ticker, p, color) ==
    [ticker |-> ticker, price |-> p, price_color |-> color]

KeepChildren(children) == children

\* grid.children = ()
ResetChildren(children) == <<>>

PrependCard(children, card) == <<card>> \o children

DoubleCard(children, card) == Append(Append(children, card), card)

DropCard(children, card) == children

\* widgets = list(grid.children); widgets.append(card); tuple(widgets)
AppendCard(children, card) == Append(children, card)

\* if coin not in exchange_rates.keys(): exchange_rates[coin] = {None, None}
EnsureEntry(rates, coin) ==
    IF coin \in DOMAIN rates THEN rates
    ELSE (coin :> [price |-> NonePrice, color |-> NoneColor]) @@ rates

NoBaseline == [valid |-> FALSE, children |-> <<>>, frames |-> <<>>]

\* The notebook's own cells bind openbb and widgets but not `api`, so a kernel
\* that ran only this notebook has api_bound = FALSE; a kernel whose namespace
\* also holds `api` (the module the call was written against) has TRUE.  The
\* binding does not change while the dashboard runs.
Init ==
    /\ api_bound \in BOOLEAN
    /\ grid = <<>>
    /\ exchange_rates = <<>>
    /\ pc = "idle"
    /\ coin_idx = 0
    /\ price = NonePrice
    /\ price_color = NoneColor
    /\ attempts = <<>>
    /\ fetched = <<>>
    /\ raised = "none"
    /\ called = FALSE
    /\ baseline = NoBaseline

\* The button is clicked: show_rates starts and empties the grid.  The kernel
\* runs one handler at a time, so a click waits for a running call to end.
\* The data source either repeats in this call what it returned in the
\* previous one (same) or is free to return anything.
on_click ==
    /\ pc = "idle"
    /\ grid' = ResetChildren(grid)
    /\ pc' = "fetch"
    /\ coin_idx' = 1
    /\ attempts' = <<>>
    /\ fetched' = <<>>
    /\ raised' = "none"
    /\ called' = TRUE
    /\ \E same \in BOOLEAN :
         /\ same => called
         /\ baseline' = IF same
                        THEN [valid |-> TRUE, children |-> grid,
                              frames |-> fetched]
                        ELSE NoBaseline
    /\ UNCHANGED <<api_bound, exchange_rates, price, price_color>>

\* Loop body, first half: the entry of coin is created if missing, then the
\* try/except around get_exchange_rate sets price and price_color.
fetch_rate ==
    /\ pc = "fetch"
    /\ \E df \in Frames :
         /\ (baseline.valid /\ coin_idx <= Len(baseline.frames))
                => df = baseline.frames[coin_idx]
         /\ LET coin == COIN_LIST[coin_idx]
                r == get_exchange_rate(df)
            IN  /\ exchange_rates' = EnsureEntry(exchange_rates, coin)
                /\ attempts' = Append(attempts, coin)
                /\ fetched' = Append(fetched, df)
                /\ price' = IF r.raises THEN PLACEHOLDER ELSE r.price
                /\ price_color' = IF r.raises THEN "neutral_color"
                                  ELSE r.price_color
    /\ pc' = "render"
    /\ UNCHANGED <<api_bound, grid, coin_idx, raised, called, baseline>>

\* Loop body, second half, when `api` resolves: the card is appended to the
\* grid; the loop goes to the next coin or show_rates returns.
append_card ==
    /\ pc = "render"
    /\ api_bound
    /\ grid' = AppendCard(grid,
                          price_card(COIN_LIST[coin_idx], price, price_color))
    /\ IF coin_idx < Len(COIN_LIST)
       THEN /\ pc' = "fetch"
            /\ coin_idx' = coin_idx + 1
            /\ UNCHANGED <<price, price_color>>
       ELSE /\ pc' = "idle"
            /\ coin_idx' = 0
            /\ price' = NonePrice
            /\ price_color' = NoneColor
    /\ UNCHANGED <<api_bound, exchange_rates, attempts, fetched, raised,
                   called, baseline>>

\* Loop body, second half, when `api` does not resolve: evaluating
\* api.widgets.price_card raises NameError outside the try block, and the
\* exception ends show_rates.
name_error ==
    /\ pc = "render"
    /\ ~api_bound
    /\ raised' = "NameError"
    /\ pc' = "idle"
    /\ coin_idx' = 0
    /\ price' = NonePrice
    /\ price_color' = NoneColor
    /\ UNCHANGED <<api_bound, grid, exchange_rates, attempts, fetched, called,
                   baseline>>

Next ==
    \/ on_click
    \/ fetch_rate
    \/ append_card
    \/ name_error

Spec == Init /\ [][Next]_vars

----------------------------------------------------------------------------
(* Properties *)

Min(a, b) == IF a < b THEN a ELSE b
Max(a, b) == IF a < b THEN b ELSE a

\* The frame fetched for the coin show_rates is working on.
CurrentFrame == fetched[coin_idx]

\* The fetch of frame df succeeded: get_exchange_rate returned.
Succeeded(df) == ~df.error /\ Len(df.Close) >= 2

\* The digits of a fraction read as a number of k digits.
RECURSIVE FracVal(_, _)
FracVal(f, k) == IF k = 0 THEN 0 ELSE FracVal(f, k - 1) * 10 + FracDigit(f, k)

\* a > b as numbers.
NumGreater(a, b) ==
    LET k == Max(Len(a.frac), Len(b.frac))
    IN  \/ a.whole > b.whole
        \/ a.whole = b.whole /\ FracVal(a.frac, k) > FracVal(b.frac, k)

\* The card show_rates is to show for the i-th coin given the frame fetched.
ExpectedCard(i, df) ==
    IF Succeeded(df)
    THEN [ticker |-> COIN_LIST[i],
          price |-> get_exchange_rate(df).price,
          price_color |-> get_exchange_rate(df).price_color]
    ELSE [ticker |-> COIN_LIST[i], price |-> PLACEHOLDER,
          price_color |-> "neutral_color"]

\* A call of show_rates has ended (returned or raised).
RefreshEnded == pc = "idle" /\ called

\* C1: when refresh() has ended, the grid holds exactly one card per symbol of
\* the list, the i-th card being the i-th symbol's.
C1_GridCompleteAfterRefresh ==
    RefreshEnded =>
        /\ Len(grid) = Len(COIN_LIST)
        /\ \A i \in 1..Len(grid) : grid[i].ticker = COIN_LIST[i]

\* C2: when refresh() has ended, a symbol whose fetch failed has the
\* placeholder card with the neutral color, and every symbol after it has the
\* card of its own fetch result.
C2_FailureContained ==
    RefreshEnded =>
        \A i \in 1..Len(fetched) :
            ~Succeeded(fetched[i]) =>
                /\ Len(fetched) = Len(COIN_LIST)
                /\ Len(grid) = Len(COIN_LIST)
                /\ grid[i].price = PLACEHOLDER
                /\ grid[i].price_color = "neutral_color"
                /\ \A j \in (i + 1)..Len(COIN_LIST) :
                        grid[j] = ExpectedCard(j, fetched[j])

\* C3: after a successful fetch the color is up exactly when latest > prior,
\* down exactly when latest < prior, neutral exactly when they are equal, and
\* it is one of the three colors.
C3_ColorByComparison ==
    (pc = "render" /\ Succeeded(CurrentFrame)) =>
        LET latest == Latest(CurrentFrame.Close)
            prior == Prior(CurrentFrame.Close)
        IN  /\ price_color \in {"up_color", "down_color", "neutral_color"}
            /\ price_color = "up_color" <=> NumGreater(latest, prior)
            /\ price_color = "down_color" <=> NumGreater(prior, latest)
            /\ price_color = "neutral_color" <=> latest = prior

C3_Witness ==
    /\ pc = "render"
    /\ Succeeded(CurrentFrame)
    /\ Len(CurrentFrame.Close) = 3
    /\ price_color = "up_color"

\* C4: the price and color derived for a symbol are stored under it in
\* exchange_rates, so every card's price and color equal its symbol's entry.
C4_EntryStored ==
    /\ pc = "render" =>
          exchange_rates[COIN_LIST[coin_idx]] =
              [price |-> price, color |-> price_color]
    /\ \A i \in 1..Len(grid) :
          /\ grid[i].ticker \in DOMAIN exchange_rates
          /\ exchange_rates[grid[i].ticker] =
                 [price |-> grid[i].price, color |-> grid[i].price_color]

Pos(ticker) == CHOOSE k \in 1..Len(COIN_LIST) : COIN_LIST[k] = ticker

C7_Idempotent ==
    baseline.valid =>
        /\ Len(grid) <= Len(baseline.children)
        /\ \A i \in 1..Len(grid) : grid[i] = baseline.children[i]
        /\ pc = "idle" => grid = baseline.children

C7_Witness ==
    /\ pc = "idle"
    /\ baseline.valid
    /\ Len(grid) = Len(COIN_LIST)
    /\ \E i \in 1..Len(grid) : grid[i].price = PLACEHOLDER
    /\ \E i \in 1..Len(grid) : grid[i].price_color = "down_color"

\* C8: after a successful fetch, price is the prefix of str(latest) of length
\* min(7, length of str(latest)); 12345.6789 gives "12345.6" and 10.0 "10.0".
C8_PriceIsPrefix ==
    (pc = "render" /\ Succeeded(CurrentFrame)) =>
        LET latest == Latest(CurrentFrame.Close)
            s == str(latest)
        IN  /\ Len(price) = Min(7, Len(s))
            /\ \A i \in 1..Len(price) : price[i] = s[i]
            /\ latest = Dec(12345, <<6, 7, 8, 9>>) =>
                   price = <<"1", "2", "3", "4", "5", ".", "6">>
            /\ latest = Dec(10, <<>>) => price = <<"1", "0", ".", "0">>
            /\ latest = BigClose =>
                   price = <<"1", "2", "3", "4", "5", "6", "7">>

C8_Witness ==
    /\ pc = "render"
    /\ Succeeded(CurrentFrame)
    /\ Latest(CurrentFrame.Close) = Dec(12345, <<6, 7, 8, 9>>)
    /\ price = <<"1", "2", "3", "4", "5", ".", "6">>

\* C9: a call of show_rates ends having called get_exchange_rate exactly once
\* per symbol, in list order, and without an exception leaving it.
C9_RunsToCompletion ==
    RefreshEnded => (attempts = COIN_LIST /\ raised = "none")

\* C10: the grid is always a prefix of the list's cards (card i is symbol i's),
\* and once a refresh has started every card in it was made in that refresh.
C10_GridIsPrefix ==
    /\ Len(grid) <= Len(COIN_LIST)
    /\ \A i \in 1..Len(grid) :
          /\ grid[i].ticker = COIN_LIST[i]
          /\ pc # "idle" => (i <= Len(attempts) /\ attempts[i] = grid[i].ticker)

C10_Witness ==
    /\ pc = "fetch"
    /\ baseline.valid
    /\ Len(baseline.children) = Len(COIN_LIST)
    /\ Len(grid) = 1
    /\ Len(grid) < Len(COIN_LIST)

====
